---- MODULE Spec2Model ----
(***************************************************************************)
(* A model of the three core classes of the drawer library:                *)
(*   PointerTracker       packages/core/src/gestures/pointer-tracker.ts    *)
(*   SpringAnimation      packages/core/src/animation/spring-physics.ts    *)
(*   SnapPointCalculator  packages/core/src/snap-points/snap-calculator.ts *)
(* Each class owns its state exclusively, so each has its own              *)
(* specification (SpecTracker, SpecSpring, SpecSnap) over its own          *)
(* variables; the variables of the other classes stay at their initial     *)
(* values.                                                                 *)
(*                                                                         *)
(* and of the React components and hooks built on them:                    *)
(*   DrawerRoot, useDrawerState, DrawerTrigger, DrawerClose,               *)
(*   DrawerOverlay, DrawerContent     one drawer with its PointerTracker   *)
(*                                    and SpringAnimation (SpecDrawer)     *)
(*   useScrollLock                    several drawers on one document body *)
(*                                    (SpecScroll)                         *)
(*   useFocusTrap                     one drawer's content and the         *)
(*                                    document's focus (SpecFocus)         *)
(***************************************************************************)
EXTENDS Integers, Sequences, FiniteSets, TLC

VARIABLES
    \* PointerTracker
    state,          \* this.state : GestureState
    history,        \* this.history : Array<{x, y, time}>
    \* observation of the PointerTracker's calls (not fields of the class)
    call,           \* the last method called and isDragging before it
    gesture,        \* every sample of the current gesture, start included
    lastMove,       \* what the last move() of the current gesture returned
    \* SnapPointCalculator
    resolvedPoints, \* this.resolvedPoints : SnapPointResolved[]
    containerSize,  \* this.containerSize
    \* observation of the SnapPointCalculator's calls
    query,          \* the last query made, its arguments and what it returned
    \* SpringAnimation, the frame scheduler it runs on, and what its
    \* callbacks have observed
    spring,
    \* one drawer: the state of useDrawerState, the props and callbacks of
    \* DrawerContent, and what an observer of its handlers has seen
    drawer,
    \* useScrollLock: document.body's style and what each drawer's effect
    \* holds
    scrollLock,
    \* useFocusTrap: the content's elements, what the effect holds and
    \* document.activeElement
    focusTrap

trackerVars == <<state, history, call, gesture, lastMove>>

snapVars == <<resolvedPoints, containerSize, query>>

springVars == <<spring>>

reactVars == <<drawer, scrollLock, focusTrap>>

vars == <<state, history, call, gesture, lastMove,
          resolvedPoints, containerSize, query, spring,
          drawer, scrollLock, focusTrap>>

(***************************************************************************)
(* Numbers                                                                 *)
(***************************************************************************)

Abs(n) == IF n < 0 THEN -n ELSE n

Min(a, b) == IF a < b THEN a ELSE b

Max(a, b) == IF a < b THEN b ELSE a

RECURSIVE GCD(_, _)
GCD(a, b) == IF b = 0 THEN a ELSE GCD(b, a % b)

\* The quotient n / d of two integers (d # 0), as the fraction in lowest
\* terms with a positive denominator: two quotients are the same number
\* exactly when they are the same record.
Quot(n, d) ==
    LET g == GCD(Abs(n), Abs(d))
        s == IF d < 0 THEN -1 ELSE 1
    IN  [n |-> (s * n) \div g, d |-> (s * d) \div g]

Zero == [n |-> 0, d |-> 1]

\* A number is finite (v units of the component that holds it), NaN or
\* Infinity.

Fin(v) == [kind |-> "finite", v |-> v]

NaN == [kind |-> "NaN", v |-> 0]

Infinity == [kind |-> "Infinity", v |-> 0]

Range(seq) == {seq[i] : i \in DOMAIN seq}

(***************************************************************************)
(* PointerTracker                                                          *)
(***************************************************************************)

\* readonly maxHistoryLength = 5
maxHistoryLength == 5

\* const threshold = 5 in getDirection
threshold == 5

\* Timestamps of the samples are 0..MaxTime.
MaxTime == 1

\* A gesture holds at most MaxGesture samples, its start sample included.
MaxGesture == 6

\* The positions a sample can have.
Points == {<<0, 0>>, <<6, 6>>, <<0, 7>>}

\* PointerEvent; pointerId is never read by the tracker.
Events == {[clientX |-> p[1], clientY |-> p[2], timeStamp |-> t] :
               p \in Points, t \in 0..MaxTime}

Sample(event) == [x |-> event.clientX, y |-> event.clientY, time |-> event.timeStamp]

getInitialState ==
    [isDragging |-> FALSE, startX |-> 0, startY |-> 0, currentX |-> 0,
     currentY |-> 0, deltaX |-> 0, deltaY |-> 0, velocityX |-> Zero,
     velocityY |-> Zero, direction |-> "null", timestamp |-> 0]

\* A velocity taken over the two newest samples instead of the whole window.
calculateVelocityNewestTwo(h) ==
    IF Len(h) < 2 THEN [velocityX |-> Zero, velocityY |-> Zero]
    ELSE LET latest == h[Len(h)]
             oldest == h[Len(h) - 1]
             timeDelta == latest.time - oldest.time
         IN  IF timeDelta = 0 THEN [velocityX |-> Zero, velocityY |-> Zero]
             ELSE [velocityX |-> Quot(latest.x - oldest.x, timeDelta),
                   velocityY |-> Quot(latest.y - oldest.y, timeDelta)]

calculateVelocity(h) ==
    IF Len(h) < 2 THEN [velocityX |-> Zero, velocityY |-> Zero]
    ELSE LET latest == h[Len(h)]
             oldest == h[1]
             timeDelta == latest.time - oldest.time
         IN  IF timeDelta = 0 THEN [velocityX |-> Zero, velocityY |-> Zero]
             ELSE [velocityX |-> Quot(latest.x - oldest.x, timeDelta),
                   velocityY |-> Quot(latest.y - oldest.y, timeDelta)]

\* A direction that is null as soon as one of the two deltas is small.
getDirectionEitherSmall(deltaX, deltaY) ==
    IF Abs(deltaX) < threshold \/ Abs(deltaY) < threshold THEN "null"
    ELSE IF Abs(deltaX) > Abs(deltaY)
         THEN (IF deltaX > 0 THEN "right" ELSE "left")
         ELSE (IF deltaY > 0 THEN "down" ELSE "up")

getDirection(deltaX, deltaY) ==
    IF Abs(deltaX) < threshold /\ Abs(deltaY) < threshold THEN "null"
    ELSE IF Abs(deltaX) > Abs(deltaY)
         THEN (IF deltaX > 0 THEN "right" ELSE "left")
         ELSE (IF deltaY > 0 THEN "down" ELSE "up")

\* A history that drops the sample just pushed when it is full.
pushHistoryDropNewest(h, event) ==
    LET pushed == Append(h, Sample(event))
    IN  IF Len(pushed) > maxHistoryLength THEN SubSeq(pushed, 1, Len(pushed) - 1)
        ELSE pushed

\* this.history.push(...); if (length > maxHistoryLength) this.history.shift()
pushHistory(h, event) ==
    LET pushed == Append(h, Sample(event))
    IN  IF Len(pushed) > maxHistoryLength THEN Tail(pushed) ELSE pushed

\* start(event): the new state and history
start(event) ==
    [state |-> [getInitialState EXCEPT !.isDragging = TRUE,
                    !.startX = event.clientX, !.startY = event.clientY,
                    !.currentX = event.clientX, !.currentY = event.clientY,
                    !.timestamp = event.timeStamp],
     history |-> <<Sample(event)>>]

\* The body of move() once the isDragging guard has passed.
moveDragging(st, h, event) ==
    LET deltaX == event.clientX - st.startX
        deltaY == event.clientY - st.startY
        h2 == pushHistory(h, event)
        v == calculateVelocity(h2)
    IN  [state |-> [st EXCEPT !.currentX = event.clientX, !.currentY = event.clientY,
                        !.deltaX = deltaX, !.deltaY = deltaY,
                        !.velocityX = v.velocityX, !.velocityY = v.velocityY,
                        !.direction = getDirection(deltaX, deltaY),
                        !.timestamp = event.timeStamp],
         history |-> h2]

\* A move() without its isDragging guard.
moveUnguarded(st, h, event) == moveDragging(st, h, event)

\* move(event): the new state (which is also what it returns) and history
move(st, h, event) ==
    IF ~st.isDragging THEN [state |-> st, history |-> h]
    ELSE moveDragging(st, h, event)

\* An end() that only clears isDragging.
endWithoutMove(st, h, event) ==
    [state |-> [st EXCEPT !.isDragging = FALSE], history |-> h]

\* end(event): one final move, then isDragging = false
end(st, h, event) ==
    LET final == move(st, h, event)
    IN  [state |-> [final.state EXCEPT !.isDragging = FALSE],
         history |-> final.history]

NoMove == [made |-> FALSE]

InitTracker ==
    /\ state = getInitialState
    /\ history = <<>>
    /\ call = [op |-> "new", dragging |-> FALSE]
    /\ gesture = <<>>
    /\ lastMove = NoMove

\* Pointer events carry non-decreasing timestamps.
Later(event) ==
    IF gesture = <<>> THEN TRUE ELSE event.timeStamp >= gesture[Len(gesture)].time

Start(event) ==
    /\ Later(event)
    /\ state' = start(event).state
    /\ history' = start(event).history
    /\ call' = [op |-> "start", dragging |-> state.isDragging]
    /\ gesture' = <<Sample(event)>>
    /\ lastMove' = NoMove
    /\ UNCHANGED <<snapVars, springVars, reactVars>>

Move(event) ==
    /\ Later(event)
    /\ state.isDragging => Len(gesture) < MaxGesture
    /\ state' = move(state, history, event).state
    /\ history' = move(state, history, event).history
    /\ call' = [op |-> "move", dragging |-> state.isDragging]
    /\ gesture' = IF state.isDragging THEN Append(gesture, Sample(event)) ELSE gesture
    /\ lastMove' = IF state.isDragging
                   THEN [made |-> TRUE, state |-> move(state, history, event).state]
                   ELSE lastMove
    /\ UNCHANGED <<snapVars, springVars, reactVars>>

End(event) ==
    /\ Later(event)
    /\ state.isDragging => Len(gesture) < MaxGesture
    /\ state' = end(state, history, event).state
    /\ history' = end(state, history, event).history
    /\ call' = [op |-> "end", dragging |-> state.isDragging]
    /\ gesture' = IF state.isDragging THEN Append(gesture, Sample(event)) ELSE gesture
    /\ UNCHANGED lastMove
    /\ UNCHANGED <<snapVars, springVars, reactVars>>

Reset ==
    /\ state' = getInitialState
    /\ history' = <<>>
    /\ call' = [op |-> "reset", dragging |-> state.isDragging]
    /\ gesture' = <<>>
    /\ lastMove' = NoMove
    /\ UNCHANGED <<snapVars, springVars, reactVars>>

NextTracker ==
    \/ \E event \in Events : Start(event)
    \/ \E event \in Events : Move(event)
    \/ \E event \in Events : End(event)
    \/ Reset

(***************************************************************************)
(* PointerTracker: properties                                              *)
(***************************************************************************)

\* v is the slope (b - a) / (tb - ta), or 0 when the time span is 0
SlopeIs(v, a, b, ta, tb) ==
    /\ v.d > 0
    /\ IF tb = ta THEN v = Zero ELSE v.n * (tb - ta) = (b - a) * v.d

\* The last n entries of a sequence.
LastN(s, n) == SubSeq(s, Len(s) - n + 1, Len(s))

\* An end() call closed a gesture that had at least one move().
EndedAfterMove == call.op = "end" /\ call.dragging /\ lastMove.made

\* C5 as stated: the state returned by end(e) after start, move, ..., move has
\* isDragging = false and the deltas and velocities that the last move()
\* before it returned, whatever the end sample e is.
C5_EndKeepsLastMove ==
    EndedAfterMove =>
        /\ ~state.isDragging
        /\ state.deltaX = lastMove.state.deltaX
        /\ state.deltaY = lastMove.state.deltaY
        /\ state.velocityX = lastMove.state.velocityX
        /\ state.velocityY = lastMove.state.velocityY

\* C5 amended: the state returned by end(e) has isDragging = false and the
\* deltas and velocities of one final move made with e itself: the deltas are
\* e minus the start sample, the velocities the slope from the oldest of the
\* (at most 5) newest samples of the gesture, e included, to e.
C5_EndIsFinalMove ==
    EndedAfterMove =>
        LET k == Len(gesture)
            e == gesture[k]
            o == gesture[Max(1, k - maxHistoryLength + 1)]
        IN  /\ ~state.isDragging
            /\ state.deltaX = e.x - gesture[1].x
            /\ state.deltaY = e.y - gesture[1].y
            /\ SlopeIs(state.velocityX, o.x, e.x, o.time, e.time)
            /\ SlopeIs(state.velocityY, o.y, e.y, o.time, e.time)

\* C5 witness: an end() after a move() whose sample is elsewhere than the
\* last move's, so that the deltas differ from the last move's.
C5_Witness ==
    /\ EndedAfterMove
    /\ state.deltaX # lastMove.state.deltaX
    /\ state.velocityY # lastMove.state.velocityY

\* C6: after every move during an active gesture velocityX and velocityY are
\* (newest - oldest position) / (newest - oldest timestamp) over the samples
\* retained in the history, and 0 when it holds fewer than 2 samples or that
\* time span is 0; the velocity is always a finite number.
C6_VelocityOverWindow ==
    (call.op = "move" /\ call.dragging) =>
        IF Len(history) < 2
        THEN state.velocityX = Zero /\ state.velocityY = Zero
        ELSE LET o == history[1]
                 l == history[Len(history)]
             IN  /\ SlopeIs(state.velocityX, o.x, l.x, o.time, l.time)
                 /\ SlopeIs(state.velocityY, o.y, l.y, o.time, l.time)

\* C6 witness: a move after the start sample has been evicted, with a
\* velocity that is not 0.
C6_Witness ==
    /\ call.op = "move" /\ call.dragging
    /\ Len(gesture) > maxHistoryLength
    /\ state.velocityX # Zero

\* C7: after every move during an active gesture direction is null exactly
\* when both |deltaX| < 5 and |deltaY| < 5; otherwise it names an axis whose
\* absolute delta is the larger one, signed by that delta.
C7_Direction ==
    (call.op = "move" /\ call.dragging) =>
        LET dx == state.deltaX
            dy == state.deltaY
            dir == state.direction
        IN  /\ dir = "null" <=> (Abs(dx) < 5 /\ Abs(dy) < 5)
            /\ dir = "right" => (dx > 0 /\ Abs(dx) >= Abs(dy))
            /\ dir = "left" => (dx < 0 /\ Abs(dx) >= Abs(dy))
            /\ dir = "down" => (dy > 0 /\ Abs(dy) >= Abs(dx))
            /\ dir = "up" => (dy < 0 /\ Abs(dy) >= Abs(dx))
            /\ dir \in {"null", "right", "left", "down", "up"}

\* C7 witness: a move whose two deltas have the same absolute value, 5 or more.
C7_Witness ==
    /\ call.op = "move" /\ call.dragging
    /\ Abs(state.deltaX) = Abs(state.deltaY)
    /\ state.direction # "null"

\* C8: the history holds at most 5 entries, and during a gesture of k samples
\* it is the most recent min(k, 5) of them in arrival order.
C8_BoundedHistory ==
    /\ Len(history) <= 5
    /\ state.isDragging =>
           history = LastN(gesture, Min(Len(gesture), 5))

\* C8 witness: a gesture in progress that has had more than 5 samples.
C8_Witness == state.isDragging /\ Len(gesture) > 5

\* C9: a move while no gesture is active changes neither the state nor the
\* history (and returns that state).
C9_IdleMoveChangesNothing ==
    [][(call'.op = "move" /\ ~state.isDragging) =>
           (state' = state /\ history' = history)]_vars

\* C9 witness: a move made after a gesture has ended, when the tracker still
\* holds that gesture's deltas and samples.
C9_Witness ==
    /\ call.op = "move" /\ ~call.dragging
    /\ history # <<>> /\ state.deltaX # 0

(***************************************************************************)
(* SnapPointCalculator                                                     *)
(*                                                                         *)
(* Offsets are counted in hundredths of a pixel, so that a ratio given in  *)
(* hundredths times a container size in pixels is a whole number.  A       *)
(* number is finite (an integer of that unit) or NaN; Infinity only occurs *)
(* as the initial minDistance of findNearestSnapPoint.                     *)
(***************************************************************************)

\* a * b on numbers, b finite
Times(a, b) == IF a = NaN THEN NaN ELSE Fin(a.v * b)

\* Math.abs(a - b) on numbers that are finite or NaN
Distance(a, b) == IF a = NaN \/ b = NaN THEN NaN ELSE Fin(Abs(a.v - b.v))

\* a <= b on numbers, a not Infinity: false when either is NaN
NotMore(a, b) ==
    /\ a # NaN /\ b # NaN
    /\ b = Infinity \/ a.v <= b.v

\* a < b on numbers, a not Infinity: false when either is NaN
Less(a, b) ==
    /\ a # NaN /\ b # NaN
    /\ b = Infinity \/ a.v < b.v

\* window.innerHeight and window.innerWidth, in pixels
innerHeight == 6

innerWidth == 2

\* The container sizes a config can name, in pixels.
Sizes == {4, 8}

\* A point list holds at most MaxPoints descriptors.
MaxPoints == 3

\* A bare number r, given in hundredths: Ratio(50) is 0.5.
Ratio(n) == [type |-> "number", n |-> n]

\* A string: the number it starts with (NaN when it starts with none) and the
\* suffix it ends with; Text(25, "%") is '25%', Text(NaN, "") is 'abc'.
Text(num, suffix) == [type |-> "string", num |-> num, suffix |-> suffix]

\* An object {value, id}
Named(value, id) == [type |-> "object", value |-> value, id |-> id]

\* SnapPoint = number | string | { value: number | string; id: string }
Descriptors ==
    {Ratio(Fin(-50)),
     Text(Fin(2), "px"), Text(Fin(25), "%"), Text(Fin(50), "vh"), Text(NaN, ""),
     Named(Ratio(Fin(50)), "middle")}

\* The lists updateConfig is called with: every list the constructor can
\* take is covered by Init, and updateConfig replaces the list whole.
UpdateLists ==
    {<<>>, <<Ratio(Fin(100))>>, <<Text(NaN, "")>>,
     <<Text(Fin(2), "px"), Named(Text(Fin(25), "%"), "quarter")>>}

RECURSIVE ListsUpTo(_, _)
\* The lists of at most n entries of D.
ListsUpTo(n, D) ==
    IF n = 0 THEN {<<>>}
    ELSE LET shorter == ListsUpTo(n - 1, D)
         IN  shorter \cup {Append(l, d) : l \in shorter, d \in D}

\* Number.parseFloat(value), in hundredths of the unit
parseFloat(value) == Times(value.num, 100)

\* parseSnapValue(value) under this.containerSize = size
parseSnapValue(value, size) ==
    IF value.type = "number" THEN Times(value.n, size)
    ELSE IF value.suffix = "px" THEN parseFloat(value)
    ELSE IF value.suffix = "%" THEN Times(value.num, size)
    ELSE IF value.suffix = "vh" THEN Times(value.num, innerHeight)
    ELSE IF value.suffix = "vw" THEN Times(value.num, innerWidth)
    ELSE parseFloat(value)

\* `snap-${index}`, index counted from 0
SnapId(index) ==
    <<"snap-0", "snap-1", "snap-2", "snap-3", "snap-4", "snap-5", "snap-6",
      "snap-7", "snap-8", "snap-9">>[index + 1]

\* A resolveSnapPoints that runs before this.containerSize is assigned, on the
\* size of the previous config.
resolveSnapPointsStale(points, size) ==
    [i \in 1..Len(points) |->
        LET point == points[i]
        IN  IF point.type = "object"
            THEN [id |-> point.id,
                  offset |-> parseSnapValue(point.value, containerSize),
                  relative |-> point.value.type = "number"]
            ELSE [id |-> SnapId(i - 1),
                  offset |-> parseSnapValue(point, containerSize),
                  relative |-> point.type = "number"]]

\* resolveSnapPoints(points) under this.containerSize = size
resolveSnapPoints(points, size) ==
    [i \in 1..Len(points) |->
        LET point == points[i]
        IN  IF point.type = "object"
            THEN [id |-> point.id,
                  offset |-> parseSnapValue(point.value, size),
                  relative |-> point.value.type = "number"]
            ELSE [id |-> SnapId(i - 1),
                  offset |-> parseSnapValue(point, size),
                  relative |-> point.type = "number"]]

RECURSIVE ScanNearestLast(_, _, _, _, _)
\* A scan whose comparison is <=, so that a later point at the same distance
\* replaces the best match.
ScanNearestLast(points, currentOffset, i, minDistance, nearestIndex) ==
    IF i > Len(points) THEN nearestIndex
    ELSE LET distance == Distance(points[i].offset, currentOffset)
         IN  IF NotMore(distance, minDistance)
             THEN ScanNearestLast(points, currentOffset, i + 1, distance, i - 1)
             ELSE ScanNearestLast(points, currentOffset, i + 1, minDistance, nearestIndex)

RECURSIVE ScanNearest(_, _, _, _, _)
\* The forEach of findNearestSnapPoint from the point at position i on;
\* nearestIndex is counted from 0.
ScanNearest(points, currentOffset, i, minDistance, nearestIndex) ==
    IF i > Len(points) THEN nearestIndex
    ELSE LET distance == Distance(points[i].offset, currentOffset)
         IN  IF Less(distance, minDistance)
             THEN ScanNearest(points, currentOffset, i + 1, distance, i - 1)
             ELSE ScanNearest(points, currentOffset, i + 1, minDistance, nearestIndex)

\* What findNearestSnapPoint returns once the scan has chosen nearestIndex.
NearestResult(points, nearestIndex) ==
    IF nearestIndex + 1 \in DOMAIN points
    THEN [index |-> nearestIndex, offset |-> points[nearestIndex + 1].offset,
          id |-> points[nearestIndex + 1].id]
    ELSE [index |-> 0, offset |-> Fin(0), id |-> SnapId(0)]

findNearestSnapPointLast(points, currentOffset) ==
    NearestResult(points, ScanNearestLast(points, currentOffset, 1, Infinity, 0))

findNearestSnapPoint(points, currentOffset) ==
    NearestResult(points, ScanNearest(points, currentOffset, 1, Infinity, 0))

\* The offsets queried, in hundredths of a pixel.
Offsets == {Fin(-100), Fin(0), Fin(100), Fin(180), Fin(300), Fin(500)}

\* null
NoPoint == [index |-> -1, offset |-> NaN, id |-> "null"]

\* A findNextSnapPoint without the guard on a missing list entry.
findNextSnapPointUnguarded(points, currentIndex, velocity, velocityThreshold) ==
    LET isMovingForward == velocity > 0
        hasSignificantVelocity == Abs(velocity) > velocityThreshold
        nextIndex == IF isMovingForward
                     THEN Min(currentIndex + 1, Len(points) - 1)
                     ELSE Max(currentIndex - 1, 0)
    IN  IF ~hasSignificantVelocity THEN NoPoint
        ELSE IF nextIndex = currentIndex THEN NoPoint
        ELSE IF nextIndex + 1 \notin DOMAIN points
             THEN [index |-> nextIndex, offset |-> NaN, id |-> "undefined"]
        ELSE [index |-> nextIndex, offset |-> points[nextIndex + 1].offset,
              id |-> points[nextIndex + 1].id]

\* A findNextSnapPoint that steps without clamping to the ends of the list.
findNextSnapPointUnclamped(points, currentIndex, velocity, velocityThreshold) ==
    LET isMovingForward == velocity > 0
        hasSignificantVelocity == Abs(velocity) > velocityThreshold
        nextIndex == IF isMovingForward THEN currentIndex + 1 ELSE currentIndex - 1
    IN  IF ~hasSignificantVelocity THEN NoPoint
        ELSE [index |-> nextIndex,
              offset |-> IF nextIndex + 1 \in DOMAIN points
                         THEN points[nextIndex + 1].offset ELSE NaN,
              id |-> IF nextIndex + 1 \in DOMAIN points
                     THEN points[nextIndex + 1].id ELSE "undefined"]

\* findNextSnapPoint(currentIndex, velocity, velocityThreshold); the
\* velocities are in hundredths
findNextSnapPoint(points, currentIndex, velocity, velocityThreshold) ==
    LET isMovingForward == velocity > 0
        hasSignificantVelocity == Abs(velocity) > velocityThreshold
        nextIndex == IF isMovingForward
                     THEN Min(currentIndex + 1, Len(points) - 1)
                     ELSE Max(currentIndex - 1, 0)
    IN  IF ~hasSignificantVelocity THEN NoPoint
        ELSE IF nextIndex = currentIndex THEN NoPoint
        ELSE IF nextIndex + 1 \notin DOMAIN points THEN NoPoint
        ELSE [index |-> nextIndex, offset |-> points[nextIndex + 1].offset,
              id |-> points[nextIndex + 1].id]

\* The objects of this.resolvedPoints are named by their position in it,
\* counted from 1: [object |-> k] is the k-th of them, itself and no copy.
\* null
NoObject == [object |-> 0]

\* getSnapPoint(index): this.resolvedPoints[index] ?? null
getSnapPoint(points, index) ==
    IF index + 1 \in DOMAIN points THEN [object |-> index + 1] ELSE NoObject

\* getAllSnapPoints(): [...this.resolvedPoints], a new array of the same
\* objects
getAllSnapPoints(points) == [k \in 1..Len(points) |-> [object |-> k]]

\* The arguments findNextSnapPoint and getSnapPoint are called with.
Indexes == {-2, 0, 1, 4}

SnapVelocities == {-150, 50, 150}

\* velocityThreshold = 0.5 by default
defaultVelocityThreshold == 50

Thresholds == {defaultVelocityThreshold}

NoQuery == [op |-> "none"]

\* The field initialisers of a calculator that is never constructed.
NoSnap ==
    /\ resolvedPoints = <<>>
    /\ containerSize = 0
    /\ query = NoQuery

\* new SnapPointCalculator(config): the constructor calls updateConfig.
InitSnap ==
    \E points \in ListsUpTo(MaxPoints, Descriptors), size \in Sizes :
        /\ containerSize = size
        /\ resolvedPoints = resolveSnapPoints(points, size)
        /\ query = [op |-> "new", points |-> points, size |-> size]

UpdateConfig(points, size) ==
    /\ containerSize' = size
    /\ resolvedPoints' = resolveSnapPoints(points, size)
    /\ query' = [op |-> "updateConfig", points |-> points, size |-> size]
    /\ UNCHANGED <<trackerVars, springVars, reactVars>>

FindNearestSnapPoint(currentOffset) ==
    /\ query' = [op |-> "findNearestSnapPoint", currentOffset |-> currentOffset,
                 ret |-> findNearestSnapPoint(resolvedPoints, currentOffset)]
    /\ UNCHANGED <<resolvedPoints, containerSize>>
    /\ UNCHANGED <<trackerVars, springVars, reactVars>>

FindNextSnapPoint(currentIndex, velocity, velocityThreshold) ==
    /\ query' = [op |-> "findNextSnapPoint", currentIndex |-> currentIndex,
                 velocity |-> velocity, velocityThreshold |-> velocityThreshold,
                 ret |-> findNextSnapPoint(resolvedPoints, currentIndex, velocity,
                                           velocityThreshold)]
    /\ UNCHANGED <<resolvedPoints, containerSize>>
    /\ UNCHANGED <<trackerVars, springVars, reactVars>>

GetSnapPoint(index) ==
    /\ query' = [op |-> "getSnapPoint", index |-> index,
                 ret |-> getSnapPoint(resolvedPoints, index)]
    /\ UNCHANGED <<resolvedPoints, containerSize>>
    /\ UNCHANGED <<trackerVars, springVars, reactVars>>

GetAllSnapPoints ==
    /\ query' = [op |-> "getAllSnapPoints", ret |-> getAllSnapPoints(resolvedPoints)]
    /\ UNCHANGED <<resolvedPoints, containerSize>>
    /\ UNCHANGED <<trackerVars, springVars, reactVars>>

\* The objects the caller holds after the last call.
Held ==
    IF query.op = "getSnapPoint" THEN {query.ret} \ {NoObject}
    ELSE IF query.op = "getAllSnapPoints" THEN Range(query.ret)
    ELSE {}

\* The offset a caller writes into a point it was given.
WrittenOffset == Fin(700)

\* The caller assigns to the offset of a point it was given: the object is
\* the calculator's own, which therefore holds the offset written.  One
\* point of a list is written to.
WritePoint(point) ==
    /\ point \in Held
    /\ \A k \in DOMAIN resolvedPoints : resolvedPoints[k].offset # WrittenOffset
    /\ resolvedPoints' = [resolvedPoints EXCEPT ![point.object].offset = WrittenOffset]
    /\ query' = [op |-> "writePoint", index |-> point.object - 1]
    /\ UNCHANGED containerSize
    /\ UNCHANGED <<trackerVars, springVars, reactVars>>

\* The caller empties the array getAllSnapPoints gave it: the array is the
\* caller's own.
WriteArray ==
    /\ query.op = "getAllSnapPoints"
    /\ query' = [op |-> "writeArray"]
    /\ UNCHANGED <<resolvedPoints, containerSize>>
    /\ UNCHANGED <<trackerVars, springVars, reactVars>>

NextSnap ==
    \/ \E points \in UpdateLists, size \in Sizes : UpdateConfig(points, size)
    \/ \E index \in Indexes : GetSnapPoint(index)
    \/ GetAllSnapPoints
    \/ \E point \in Held : WritePoint(point)
    \/ WriteArray
    \/ \E currentOffset \in Offsets : FindNearestSnapPoint(currentOffset)
    \/ \E currentIndex \in Indexes, velocity \in SnapVelocities,
          velocityThreshold \in Thresholds :
           FindNextSnapPoint(currentIndex, velocity, velocityThreshold)

(***************************************************************************)
(* SnapPointCalculator: properties                                         *)
(***************************************************************************)

\* C10: on a non-empty point list findNearestSnapPoint(x) returns the index,
\* offset and id of a point such that no point is strictly nearer to x, and
\* no point before it in the list is at the same distance from x.
C10_NearestLowestIndex ==
    (query.op = "findNearestSnapPoint" /\ resolvedPoints # <<>>) =>
        LET x == query.currentOffset
            i == query.ret.index + 1
            d(j) == Distance(resolvedPoints[j].offset, x)
        IN  /\ i \in DOMAIN resolvedPoints
            /\ query.ret.offset = resolvedPoints[i].offset
            /\ query.ret.id = resolvedPoints[i].id
            /\ \A j \in DOMAIN resolvedPoints : ~Less(d(j), d(i))
            /\ \A j \in 1..(i - 1) : d(j) = NaN \/ d(j) # d(i)

\* C10 witness: a query answered with the first of two points that are at
\* the same distance, the nearest of a list of three.
C10_Witness ==
    /\ query.op = "findNearestSnapPoint"
    /\ Len(resolvedPoints) = 3
    /\ query.ret.index = 1
    /\ Distance(resolvedPoints[3].offset, query.currentOffset)
           = Distance(resolvedPoints[2].offset, query.currentOffset)
    /\ resolvedPoints[3].offset # resolvedPoints[2].offset

\* A findNextSnapPoint call answered with a point
NextFound == query.op = "findNextSnapPoint" /\ query.ret # NoPoint

\* The step the velocity of the query asks for
NextStep == IF query.velocity > 0 THEN 1 ELSE -1

\* What C11 says of a findNextSnapPoint call: null when |velocity| <=
\* threshold; otherwise the point one index further in the direction of the
\* velocity's sign, or null when currentIndex is at that end of the list; a
\* returned index is a valid index of the list, adjacent to currentIndex.
NextAsClaimed ==
    LET i == query.currentIndex
        n == Len(resolvedPoints)
        j == i + NextStep
        atEnd == IF query.velocity > 0 THEN i = n - 1 ELSE i = 0
    IN  IF Abs(query.velocity) <= query.velocityThreshold THEN query.ret = NoPoint
        ELSE /\ atEnd => query.ret = NoPoint
             /\ query.ret # NoPoint =>
                    /\ query.ret.index = j
                    /\ j + 1 \in DOMAIN resolvedPoints
                    /\ query.ret.offset = resolvedPoints[j + 1].offset
                    /\ query.ret.id = resolvedPoints[j + 1].id
             /\ j + 1 \in DOMAIN resolvedPoints => query.ret # NoPoint

\* C11 as stated: for every currentIndex, velocity and threshold
\* findNextSnapPoint returns null when |velocity| <= threshold, otherwise the
\* point one index further in the direction of the velocity's sign, or null at
\* that end of the list; a returned index is valid and adjacent to
\* currentIndex.
C11_NextAdjacentForAnyIndex == query.op = "findNextSnapPoint" => NextAsClaimed

\* C11 amended: that holds for every currentIndex that is an index of the
\* list (0 <= currentIndex < length); for a currentIndex outside the list
\* the index stepped to is clamped into the list, so that a returned index is
\* always a valid index, but is the nearest end of the list and in general
\* not adjacent to currentIndex.
C11_NextAdjacentInsideList ==
    query.op = "findNextSnapPoint" =>
        LET i == query.currentIndex
            n == Len(resolvedPoints)
        IN  /\ i + 1 \in DOMAIN resolvedPoints => NextAsClaimed
            /\ Abs(query.velocity) <= query.velocityThreshold => query.ret = NoPoint
            /\ query.ret # NoPoint =>
                    /\ query.ret.index + 1 \in DOMAIN resolvedPoints
                    /\ query.ret.offset = resolvedPoints[query.ret.index + 1].offset
                    /\ query.ret.id = resolvedPoints[query.ret.index + 1].id
            /\ (NextFound /\ i + 1 \notin DOMAIN resolvedPoints) =>
                    query.ret.index = Max(0, Min(i + NextStep, n - 1))

\* C11 witness: a backward step from the middle of a list of three.
C11_Witness ==
    /\ NextFound
    /\ Len(resolvedPoints) = 3
    /\ query.currentIndex = 1
    /\ query.ret.index = 0

\* C12: on a calculator whose point list is empty findNearestSnapPoint(x)
\* returns the fallback {index 0, offset 0, id 'snap-0'} for every x, and
\* findNextSnapPoint and getSnapPoint return null for every argument.
C12_EmptyListFallbacks ==
    resolvedPoints = <<>> =>
        /\ query.op = "findNearestSnapPoint" =>
               query.ret = [index |-> 0, offset |-> Fin(0), id |-> "snap-0"]
        /\ query.op = "findNextSnapPoint" => query.ret = NoPoint
        /\ query.op = "getSnapPoint" => query.ret = NoObject

\* C12 witness: a forward findNextSnapPoint from index 0 with a significant
\* velocity on an empty list, where the index stepped to is -1.
C12_Witness ==
    /\ resolvedPoints = <<>>
    /\ query.op = "findNextSnapPoint"
    /\ query.currentIndex = 0
    /\ query.velocity > query.velocityThreshold

\* C13: updateConfig (and the constructor) resolves the descriptor at list
\* position i so: a bare number r gives offset r x containerSize; 'Npx' gives
\* N whatever the containerSize; 'N%' gives N/100 x containerSize; an object
\* {value, id} resolves value by the same rules and keeps its id; every other
\* descriptor gets the id 'snap-i'; the result has one entry per descriptor,
\* in list order, and depends only on the config just passed.
C13_ResolvedFromConfig ==
    query.op \in {"new", "updateConfig"} =>
        /\ containerSize = query.size
        /\ Len(resolvedPoints) = Len(query.points)
        /\ \A i \in DOMAIN query.points :
               LET d == query.points[i]
                   value == IF d.type = "object" THEN d.value ELSE d
                   point == resolvedPoints[i]
               IN  /\ point.id = IF d.type = "object" THEN d.id ELSE SnapId(i - 1)
                   /\ value.type = "number" =>
                          point.offset = Times(value.n, query.size)
                   /\ (value.type = "string" /\ value.suffix = "px") =>
                          point.offset = Times(value.num, 100)
                   /\ (value.type = "string" /\ value.suffix = "%") =>
                          point.offset = Times(value.num, query.size)

\* C13 witness: updateConfig with ['2px', {value: '25%', id: 'quarter'}] and
\* containerSize 8 on a calculator constructed with containerSize 4 and a list
\* of three.
C13_Witness ==
    /\ query.op = "updateConfig"
    /\ query.size = 8
    /\ Len(resolvedPoints) = 2
    /\ resolvedPoints[1] = [id |-> "snap-0", offset |-> Fin(200), relative |-> FALSE]
    /\ resolvedPoints[2] = [id |-> "quarter", offset |-> Fin(200), relative |-> FALSE]

\* C14: in every state of a calculator, after any sequence of updateConfig
\* calls with any descriptor list and any container size, every resolved
\* snap offset is non-negative.
C14_OffsetsNonNegative ==
    \A k \in DOMAIN resolvedPoints : NotMore(Fin(0), resolvedPoints[k].offset)

\* C15: what getSnapPoint and getAllSnapPoints return are copies: whatever a
\* caller does to a returned array or point, the calculator's points stay
\* what they were, so that later calls return what they would have returned.
C15_CallerWritesStayOutside ==
    [][query'.op \in {"writePoint", "writeArray"} =>
           resolvedPoints' = resolvedPoints]_vars

(***************************************************************************)
(* SpringAnimation                                                         *)
(*                                                                         *)
(* Values are counted in thousandths of a pixel, velocities in thousandths *)
(* of a pixel per second and times in milliseconds, so that precision 0.01 *)
(* is 10.  A result beyond MaxAbs is out of the range of a number: the     *)
(* code then holds Infinity and, one tick later, NaN; neither is ever      *)
(* below precision, and the model holds NaN for both.                      *)
(*                                                                         *)
(* The one variable spring holds the fields of the instance, the browser's *)
(* frame scheduler (requestAnimationFrame, cancelAnimationFrame) and what  *)
(* an observer of the callbacks has seen:                                  *)
(*   currentValue, currentVelocity, targetValue, config, rafId,            *)
(*   isAnimating                 the fields of the class                   *)
(*   lastTime                    where this.lastTime was read: "now"       *)
(*                               (performance.now() in start) or "frame"   *)
(*                               (the timestamp given to the last tick)    *)
(*   frames                      the callbacks requested for the next frame*)
(*   batch                       the callbacks of the running frame that   *)
(*                               have not been called yet                  *)
(*   elapsed                     the running frame's timestamp minus       *)
(*                               this.lastTime                             *)
(*   running                     the handle of the callback being called   *)
(*   afterStop                   "stopped" once stop() has returned,       *)
(*                               "ticked" once a tick has run after that,  *)
(*                               "no" again at the next setTarget          *)
(*   afterComplete               "done" once onComplete has been called    *)
(*                               with nothing scheduled, "pending" when it *)
(*                               was called with a tick still scheduled,   *)
(*                               "update" / "complete" once an onUpdate /  *)
(*                               onComplete has followed it, "no" again at *)
(*                               the next setTarget                        *)
(*   calls                       how many calls of setTarget and stop have *)
(*                               been made                                 *)
(***************************************************************************)

\* precision 0.01 is 10 thousandths
SPRING_PRESETS ==
    [gentle   |-> [stiffness |-> 120, damping |-> 14,  mass |-> 1, precision |-> 10],
     wobbly   |-> [stiffness |-> 180, damping |-> 12,  mass |-> 1, precision |-> 10],
     stiff    |-> [stiffness |-> 210, damping |-> 20,  mass |-> 1, precision |-> 10],
     slow     |-> [stiffness |-> 280, damping |-> 60,  mass |-> 1, precision |-> 10],
     molasses |-> [stiffness |-> 280, damping |-> 120, mass |-> 1, precision |-> 10]]

\* Math.min(currentTime - this.lastTime, 64)
maxDeltaTime == 64

\* rafId: number | null = null
Null == 0

\* The largest absolute value a number can hold, in thousandths: the
\* arithmetic has overflowed past it.
MaxAbs == 20000

\* performance.now() read in start() is up to Skew ms later than the
\* timestamp the next frame passes to its callbacks.
Skew == 8

\* At most MaxPending callbacks are requested at a time.
MaxPending == 2

\* At most MaxCalls calls of setTarget and stop are made on the instance.
MaxCalls == 3

\* The targets and initial values, and the velocities setTarget is given.
Targets == {Fin(0), Fin(30)}

Velocities == {Fin(0), Fin(100)}

\* Timestamps of successive frames differ by one of these.
FrameGaps == {64, 200}

\* n / d rounded to the nearest integer, d > 0
Round(n, d) == (2 * n + d) \div (2 * d)

Clip(n) == IF Abs(n) > MaxAbs THEN NaN ELSE Fin(n)

\* The Euler step of tick: deltaTime in ms
Integrate(w, deltaTime) ==
    IF w.currentValue = NaN \/ w.currentVelocity = NaN \/ w.targetValue = NaN
    THEN [w EXCEPT !.currentValue = NaN, !.currentVelocity = NaN]
    ELSE LET springForce ==
                 -w.config.stiffness * (w.currentValue.v - w.targetValue.v)
             dampingForce == -w.config.damping * w.currentVelocity.v
             \* acceleration * deltaTime
             dv == Round((springForce + dampingForce) * deltaTime,
                         w.config.mass * 1000)
             velocity == Clip(w.currentVelocity.v + dv)
             value == IF velocity = NaN THEN NaN
                      ELSE Clip(w.currentValue.v + Round(velocity.v * deltaTime, 1000))
         IN  [w EXCEPT !.currentVelocity = velocity, !.currentValue = value]

Pending(w) == Range(w.frames) \cup Range(w.batch)

\* this.rafId = requestAnimationFrame(this.tick): the handle is one that
\* neither a pending callback nor the running one has.
requestAnimationFrame(w) ==
    LET used == Pending(w) \cup {w.running}
        id == CHOOSE i \in 1..(Cardinality(used) + 1) :
                  /\ i \notin used
                  /\ \A j \in 1..(i - 1) : j \in used
    IN  [w EXCEPT !.frames = Append(@, id), !.rafId = id]

cancelAnimationFrame(w, id) ==
    [w EXCEPT !.frames = SelectSeq(@, LAMBDA h : h # id),
              !.batch = SelectSeq(@, LAMBDA h : h # id)]

\* start(); late is how far performance.now() is past the timestamp of the
\* running frame when a callback of that frame calls it.
springStart(w, late) ==
    requestAnimationFrame(
        [w EXCEPT !.isAnimating = TRUE, !.lastTime = "now",
                  !.elapsed = IF w.batch = <<>> THEN 0 ELSE -late])

\* setTarget(target, velocity)
setTarget(w, target, velocity, late) ==
    LET w1 == [w EXCEPT !.targetValue = target, !.currentVelocity = velocity,
                        !.afterStop = "no", !.afterComplete = "no",
                        !.calls = @ + 1]
    IN  IF ~w.isAnimating THEN springStart(w1, late) ELSE w1

\* stop()
stop(w) ==
    LET w1 == IF w.rafId # Null
              THEN [cancelAnimationFrame(w, w.rafId) EXCEPT !.rafId = Null]
              ELSE w
    IN  [w1 EXCEPT !.isAnimating = FALSE, !.afterStop = "stopped",
                   !.calls = @ + 1]

\* What a callback does to the instance it is called by: a list of calls.
StopCall == [op |-> "stop"]

SetTargetCall(target, velocity) ==
    [op |-> "setTarget", target |-> target, velocity |-> velocity]

Callbacks ==
    {<<>>, <<StopCall>>}
    \cup {<<SetTargetCall(t, Fin(0))>> : t \in Targets}
    \cup {<<StopCall, SetTargetCall(t, Fin(0))>> : t \in Targets}

RECURSIVE Run(_, _, _)
\* this.onUpdate?.(...) or this.onComplete?.() with a callback that makes
\* these calls
Run(w, calls, late) ==
    IF calls = <<>> THEN w
    ELSE LET c == Head(calls)
             w1 == IF c.op = "stop" THEN stop(w)
                   ELSE setTarget(w, c.target, c.velocity, late)
         IN  Run(w1, Tail(calls), late)

\* const deltaTime = Math.min(currentTime - this.lastTime, 64), in ms, with
\* w.elapsed = currentTime - this.lastTime
deltaTimeOf(w) == Min(w.elapsed, maxDeltaTime)

\* tick(currentTime), called by the scheduler with its handle already out of
\* the pending callbacks; callback is what onUpdate or onComplete does.
tick(w, callback, late) ==
    LET deltaTime == deltaTimeOf(w)
        w1 == Integrate([w EXCEPT !.lastTime = "frame", !.elapsed = 0,
                            !.afterStop = IF @ = "no" THEN "no" ELSE "ticked"],
                        deltaTime)
        precision == Fin(w.config.precision)
        isAtTarget == Less(Distance(w1.currentValue, w1.targetValue), precision)
        isStill == Less(Distance(w1.currentVelocity, Fin(0)), precision)
    IN  IF isAtTarget /\ isStill
        THEN Run([w1 EXCEPT !.currentValue = w1.targetValue,
                     !.currentVelocity = Fin(0),
                     !.isAnimating = FALSE,
                     !.afterComplete =
                         IF @ # "no" THEN "complete"
                         ELSE IF Pending(w1) = {} THEN "done" ELSE "pending"],
                 callback, late)
        ELSE requestAnimationFrame(
                 Run([w1 EXCEPT !.afterComplete = IF @ = "no" THEN "no" ELSE "update"],
                     callback, late))

\* new SpringAnimation(initialValue, config), with no frame requested
NewSpring(initialValue, config) ==
    [currentValue |-> initialValue, currentVelocity |-> Fin(0),
     targetValue |-> initialValue, config |-> config, rafId |-> Null,
     lastTime |-> "frame", isAnimating |-> FALSE,
     frames |-> <<>>, batch |-> <<>>, elapsed |-> 0, running |-> Null,
     afterStop |-> "no", afterComplete |-> "no", calls |-> 0]

InitSpring ==
    \E initialValue \in Targets, name \in DOMAIN SPRING_PRESETS :
        spring = NewSpring(initialValue, SPRING_PRESETS[name])

\* No event handler runs while the callbacks of a frame are being called.
BetweenFrames == spring.batch = <<>>

SetTarget(target, velocity) ==
    /\ BetweenFrames
    /\ spring.calls < MaxCalls
    /\ spring' = setTarget(spring, target, velocity, 0)
    /\ UNCHANGED <<trackerVars, snapVars, reactVars>>

Stop ==
    /\ BetweenFrames
    /\ spring.calls < MaxCalls
    /\ spring' = stop(spring)
    /\ UNCHANGED <<trackerVars, snapVars, reactVars>>

\* The scheduler at the moment it calls its next callback: when no frame is
\* running it starts one, whose callbacks are the ones requested so far and
\* whose timestamp is gap past this.lastTime; the callback called is then out
\* of the pending ones.
Called(w, gap) ==
    IF w.batch = <<>>
    THEN [w EXCEPT !.batch = Tail(w.frames), !.frames = <<>>, !.elapsed = gap,
                   !.running = Head(w.frames)]
    ELSE [w EXCEPT !.batch = Tail(w.batch), !.running = Head(w.batch)]

\* The callback has returned.
Returned(w) == [w EXCEPT !.running = Null]

\* The gaps a frame can start with: its timestamp is later than the previous
\* frame's, but can be earlier than a performance.now() read in start().
Gaps(w) ==
    IF w.batch # <<>> THEN {0}
    ELSE IF w.lastTime = "now" THEN FrameGaps \cup {-Skew}
    ELSE FrameGaps

\* The browser calls the next callback it was asked to call.
Tick(gap, callback, late) ==
    /\ Pending(spring) # {}
    /\ gap \in Gaps(spring)
    /\ late # 0 => Called(spring, gap).batch # <<>>
    /\ \E w \in {Returned(tick(Called(spring, gap), callback, late))} :
           /\ Cardinality(Pending(w)) <= MaxPending
           /\ w.calls <= MaxCalls
           /\ spring' = w
    /\ UNCHANGED <<trackerVars, snapVars, reactVars>>

NextSpring ==
    \/ \E target \in Targets, velocity \in Velocities : SetTarget(target, velocity)
    \/ Stop
    \/ \E gap \in FrameGaps \cup {0, -Skew}, callback \in Callbacks, late \in {0, Skew} :
           Tick(gap, callback, late)

\* A run of the loop that nothing interferes with: setTarget is only called
\* on an instance at rest, and the callbacks call nothing.
SetTargetAtRest(target) ==
    /\ ~spring.isAnimating
    /\ Pending(spring) = {}
    /\ SetTarget(target, Fin(0))

TickAlone == \E gap \in FrameGaps \cup {-Skew} : Tick(gap, <<>>, 0)

NextRun ==
    \/ \E target \in Targets : SetTargetAtRest(target)
    \/ TickAlone

(***************************************************************************)
(* SpringAnimation: properties                                             *)
(***************************************************************************)

\* The loop has stopped on the target: getValue() is the target, getVelocity()
\* is 0, the instance is not animating and no tick is scheduled.
Settled ==
    /\ ~spring.isAnimating
    /\ Pending(spring) = {}
    /\ spring.currentValue = spring.targetValue
    /\ spring.currentVelocity = Fin(0)

\* C25: whichever frame the browser delivers next, the elapsed time its tick
\* feeds to the integrator is at least 0 and at most 64 ms.
C25_DeltaTimeWithinClamp ==
    \A gap \in Gaps(spring) :
        Pending(spring) # {} =>
            LET deltaTime == deltaTimeOf(Called(spring, gap))
            IN  0 <= deltaTime /\ deltaTime <= maxDeltaTime

\* C26: right after setTarget(t, v) getVelocity() is v, the target is t and
\* getValue() is what it was; when the loop was not running exactly one tick
\* is scheduled, and when it was running the scheduled ticks are the ones
\* there were.
C26_SetTargetSeedsAndStartsOnce ==
    [][\A target \in Targets, velocity \in Velocities :
           SetTarget(target, velocity) =>
               /\ spring'.currentVelocity = velocity
               /\ spring'.targetValue = target
               /\ spring'.currentValue = spring.currentValue
               /\ IF spring.isAnimating
                  THEN Pending(spring') = Pending(spring)
                  ELSE Cardinality(Pending(spring')) = 1]_vars

\* C1: after setTarget(v), with no further setTarget or stop, for every
\* preset and every frame timing up to the 64 ms clamp, the loop reaches
\* after finitely many ticks a state where getValue() is exactly v,
\* getVelocity() is exactly 0 and the loop has stopped.
C1_RunSettles == spring.isAnimating ~> Settled

\* C2: each time a run settles onComplete is invoked exactly once, with
\* getValue() on the target, getVelocity() 0 and no tick scheduled, and no
\* onUpdate or further onComplete follows until the next setTarget.
C2_CompleteOnceAndLast == spring.afterComplete \in {"no", "done"}

\* C3: after stop() returns, wherever it was called from (a callback
\* included), no tick runs until the next setTarget.
C3_NoTickAfterStop == spring.afterStop # "ticked"

\* C4: under any sequence of setTarget, stop and frame callbacks (calls made
\* from inside the callbacks included), at most one tick is scheduled at any
\* moment, and one is scheduled exactly when the instance is animating.
C4_OneTickIffAnimating ==
    /\ Cardinality(Pending(spring)) <= 1
    /\ spring.isAnimating <=> Pending(spring) # {}

(***************************************************************************)
(* One drawer: DrawerRoot (useDrawerState), DrawerTrigger, DrawerClose,    *)
(* DrawerOverlay and DrawerContent                                         *)
(*                                                                         *)
(* The drawer owns one PointerTracker (state, history) and one             *)
(* SpringAnimation (spring).  DrawerContent stays mounted while the drawer *)
(* is closed, so both live as long as the drawer.  Pointer positions and   *)
(* offsetHeight are in pixels; currentOffset and the values of the         *)
(* drawer's spring are in hundredths of a pixel, so that its precision     *)
(* 0.01 is 1, and a velocity in px/ms given to setTarget is that many px/s *)
(* to the spring, as in the code.                                          *)
(*                                                                         *)
(* The one variable drawer holds                                           *)
(*   isOpen                      uncontrolledOpen of useDrawerState (the   *)
(*                               open prop is not given)                   *)
(*   isDragging, currentOffset   state of useDrawerState                   *)
(*   dismissible, direction      props of DrawerRoot                       *)
(*   offsetHeight                contentRef.current.offsetHeight           *)
(*   onUpdate, onComplete        the callbacks DrawerContent has assigned  *)
(*                               to its SpringAnimation: "undefined" or    *)
(*                               what they do                              *)
(* and what an observer has seen:                                          *)
(*   release                     what the last pointer-up on the open      *)
(*                               drawer was: "back" (neither threshold     *)
(*                               exceeded), "close" (one exceeded on a     *)
(*                               dismissible drawer), "none" before one    *)
(*   releasedAtRest              no animation was running at that release  *)
(*   closes                      calls of close() made by onComplete since *)
(*                               the last pointer-up                       *)
(*   closedBy                    the handler whose close() closed the      *)
(*                               drawer, "none" while it is open           *)
(***************************************************************************)

\* clientY and timeStamp of the pointer events on the content, in pixels and
\* milliseconds
Touches == {0, 3}

Instants == {0, 1}

DrawerEvents == {[clientX |-> 0, clientY |-> y, timeStamp |-> t] :
                     y \in Touches, t \in Instants}

\* contentRef.current.offsetHeight, in pixels: a drag of 3 pixels is more
\* than closeThreshold of the first and not of the second
ContentHeights == {9, 10}

\* The springConfig prop of DrawerContent
SpringConfigs == {"gentle", "molasses"}

\* A gesture has at most MaxDrag pointer moves (fewer than
\* maxHistoryLength).
MaxDrag == 1

\* At most MaxReleases pointer-ups are made on the content.
MaxReleases == 2

\* A quotient of pixels as hundredths of a pixel
Hundredths(q) == Round(100 * q.n, q.d)

\* new SpringAnimation(0, SPRING_PRESETS[springConfig]), in hundredths
DrawerSpring(springConfig) ==
    NewSpring(Fin(0), [SPRING_PRESETS[springConfig] EXCEPT !.precision = 1])

\* useDrawerState() with defaultOpen = false and neither open nor onOpenChange
\* given, and DrawerContent's
\* useRef(new SpringAnimation(0, SPRING_PRESETS[springConfig])) callbacks;
\* reported holds the calls of onOpenChange the latest handler has made
NewDrawer(dismissible, direction, offsetHeight) ==
    [isOpen |-> FALSE, controlledOpen |-> "undefined", uncontrolledOpen |-> FALSE,
     onOpenChange |-> "undefined", reported |-> <<>>,
     isDragging |-> FALSE, currentOffset |-> Fin(0),
     dismissible |-> dismissible, direction |-> direction,
     offsetHeight |-> offsetHeight,
     onUpdate |-> "undefined", onComplete |-> "undefined",
     release |-> "none", releasedAtRest |-> TRUE, closes |-> 0,
     closedBy |-> "none"]

\* The values of the open prop: a boolean, or undefined when it is not given
OpenProps == {"undefined", "true", "false"}

\* An open state that does not read the open prop
isOpenUncontrolled(controlledOpen, uncontrolledOpen) == uncontrolledOpen

\* const isOpen = controlledOpen ?? uncontrolledOpen
isOpenOf(controlledOpen, uncontrolledOpen) ==
    IF controlledOpen # "undefined" THEN controlledOpen = "true"
    ELSE uncontrolledOpen

\* A render of the provider with the state d holds, and DrawerContent's effect
\* on isOpen, which resets the offset when the drawer has become open
render(d) ==
    LET isOpen == isOpenOf(d.controlledOpen, d.uncontrolledOpen)
    IN  [d EXCEPT !.isOpen = isOpen,
                  !.currentOffset = IF isOpen /\ ~d.isOpen THEN Fin(0) ELSE @]

\* onOpenChange?.(newOpen)
onOpenChange(d, newOpen) ==
    IF d.onOpenChange = "undefined" THEN d
    ELSE [d EXCEPT !.reported = Append(@, newOpen)]

\* setOpen(newOpen), and the render it causes
setOpen(d, newOpen) ==
    LET set == IF d.controlledOpen = "undefined"
               THEN [d EXCEPT !.uncontrolledOpen = newOpen]
               ELSE d
    IN  render(onOpenChange(set, newOpen))

\* toggle()
toggle(d) == setOpen(d, ~d.isOpen)

\* An event handler or callback starts to run on the state d
handle(d) == [d EXCEPT !.reported = <<>>]

\* open()
open(d) == [setOpen(d, TRUE) EXCEPT !.closedBy = "none"]

\* close(), called by the handler by
close(d, by) ==
    LET closed == setOpen(d, FALSE)
    IN  [closed EXCEPT !.closedBy = IF d.isOpen /\ ~closed.isOpen THEN by ELSE @]

IsVertical(direction) == direction \in {"top", "bottom"}

\* shouldDampen of handlePointerMove
shouldDampen(direction, delta) ==
    \/ direction = "bottom" /\ delta < 0
    \/ direction = "top" /\ delta > 0
    \/ direction = "right" /\ delta < 0
    \/ direction = "left" /\ delta > 0

\* Math.abs(velocity) > velocityThreshold, velocityThreshold = 0.5
hasSignificantVelocity(velocity) == 2 * Abs(velocity.n) > velocity.d

\* Math.abs(delta) / containerSize > closeThreshold, closeThreshold = 0.3;
\* over a container of size 0 the quotient is Infinity, or NaN for delta 0
hasSignificantDrag(delta, size) ==
    IF size = 0 THEN delta # 0 ELSE 10 * Abs(delta) > 3 * size

\* hasSignificantVelocity || hasSignificantDrag
exceedsThreshold(delta, velocity, size) ==
    hasSignificantVelocity(velocity) \/ hasSignificantDrag(delta, size)

\* shouldClose of handlePointerUp
shouldClose(d, delta, velocity, size) ==
    d.dismissible /\ exceedsThreshold(delta, velocity, size)

\* The drawer when it has been rendered for the first time, with props among
\* the ones given
InitDrawer(dismissibles, directions, springConfigs) ==
    /\ \E dismissible \in dismissibles, direction \in directions,
          height \in ContentHeights :
           drawer = NewDrawer(dismissible, direction, height)
    /\ \E springConfig \in springConfigs : spring = DrawerSpring(springConfig)

\* The drawer of InitDrawer when its parent gives it the prop open, undefined
\* or not, and an onOpenChange
InitDrawerState(dismissibles, directions, springConfigs) ==
    /\ \E dismissible \in dismissibles, direction \in directions,
          height \in ContentHeights, controlledOpen \in OpenProps :
           drawer = render([NewDrawer(dismissible, direction, height) EXCEPT
                               !.controlledOpen = controlledOpen,
                               !.onOpenChange = "given"])
    /\ \E springConfig \in springConfigs : spring = DrawerSpring(springConfig)

\* Pointer events carry non-decreasing timestamps.
After(event) == event.timeStamp >= state.timestamp

\* DrawerTrigger's handleClick
TriggerClick ==
    /\ drawer' = open(handle(drawer))
    /\ UNCHANGED <<trackerVars, snapVars, springVars, scrollLock, focusTrap>>

\* The application calls the context's toggle
Toggle ==
    /\ drawer' = toggle(handle(drawer))
    /\ UNCHANGED <<trackerVars, snapVars, springVars, scrollLock, focusTrap>>

\* The parent of a controlled drawer renders it with another value of open
SetOpenProp(controlledOpen) ==
    /\ drawer.controlledOpen # "undefined"
    /\ controlledOpen # drawer.controlledOpen
    /\ drawer' = render([handle(drawer) EXCEPT !.controlledOpen = controlledOpen])
    /\ UNCHANGED <<trackerVars, snapVars, springVars, scrollLock, focusTrap>>

\* DrawerClose's handleClick
CloseClick ==
    /\ drawer' = close(handle(drawer), "button")
    /\ UNCHANGED <<trackerVars, snapVars, springVars, scrollLock, focusTrap>>

\* An overlay click that does not read dismissible
overlayClickAnyDrawer(d) == close(d, "overlay")

\* DrawerOverlay's handleClick
overlayClick(d) == IF d.dismissible THEN close(d, "overlay") ELSE d

OverlayClick ==
    /\ drawer' = overlayClick(handle(drawer))
    /\ UNCHANGED <<trackerVars, snapVars, springVars, scrollLock, focusTrap>>

\* DrawerContent's handlePointerDown
PointerDown(event) ==
    /\ After(event)
    /\ IF ~drawer.dismissible
       THEN /\ UNCHANGED <<state, history>>
            /\ drawer' = handle(drawer)
       ELSE /\ state' = start(event).state
            /\ history' = start(event).history
            /\ drawer' = [handle(drawer) EXCEPT !.isDragging = TRUE]
    /\ UNCHANGED <<call, gesture, lastMove>>
    /\ UNCHANGED <<snapVars, springVars, scrollLock, focusTrap>>

\* DrawerContent's handlePointerMove
PointerMove(event) ==
    /\ After(event)
    /\ state.isDragging => Len(history) <= MaxDrag
    /\ IF ~state.isDragging
       THEN /\ UNCHANGED <<state, history>>
            /\ drawer' = handle(drawer)
       ELSE LET updated == move(state, history, event)
                delta == IF IsVertical(drawer.direction) THEN updated.state.deltaY
                         ELSE updated.state.deltaX
                dampenedDelta == IF shouldDampen(drawer.direction, delta)
                                 THEN 30 * delta ELSE 100 * delta
            IN  /\ state' = updated.state
                /\ history' = updated.history
                /\ drawer' = [handle(drawer) EXCEPT
                       !.currentOffset = Fin(dampenedDelta)]
    /\ UNCHANGED <<call, gesture, lastMove>>
    /\ UNCHANGED <<snapVars, springVars, scrollLock, focusTrap>>

\* DrawerContent's handlePointerUp
PointerUp(event) ==
    /\ After(event)
    /\ spring.calls < MaxReleases
    /\ LET ended == end(state, history, event)
           isVertical == IsVertical(drawer.direction)
           delta == IF isVertical THEN ended.state.deltaY ELSE ended.state.deltaX
           velocity == IF isVertical THEN ended.state.velocityY
                       ELSE ended.state.velocityX
           size == drawer.offsetHeight
           closing == shouldClose(drawer, delta, velocity, size)
           targetOffset ==
               100 * size * (IF drawer.direction \in {"top", "left"} THEN -1 ELSE 1)
       IN  /\ state' = ended.state
           /\ history' = ended.history
           /\ spring' = setTarget(spring,
                                  IF closing THEN Fin(targetOffset) ELSE Fin(0),
                                  Fin(Hundredths(velocity)), 0)
           /\ drawer' = [handle(drawer) EXCEPT
                  !.isDragging = FALSE,
                  !.onComplete = IF closing THEN "close" ELSE @,
                  !.onUpdate = "setCurrentOffset",
                  !.release = IF ~drawer.isOpen THEN "none"
                              ELSE IF closing THEN "close"
                              ELSE IF exceedsThreshold(delta, velocity, size)
                                   THEN "none"
                              ELSE "back",
                  !.releasedAtRest = ~spring.isAnimating,
                  !.closes = 0]
    /\ UNCHANGED <<call, gesture, lastMove>>
    /\ UNCHANGED <<snapVars, scrollLock, focusTrap>>

\* The browser calls the tick the drawer's SpringAnimation has requested;
\* the tick calls onComplete when it settles and onUpdate when it does not.
Frame(gap) ==
    /\ Pending(spring) # {}
    /\ gap \in Gaps(spring)
    /\ LET w == Returned(tick(Called(spring, gap), <<>>, 0))
       IN  /\ spring' = w
           /\ drawer' =
                  IF ~w.isAnimating
                  THEN IF drawer.onComplete = "close"
                       THEN [close(handle(drawer), "complete") EXCEPT
                                !.closes = @ + 1]
                       ELSE handle(drawer)
                  ELSE IF drawer.onUpdate = "setCurrentOffset"
                       THEN [handle(drawer) EXCEPT !.currentOffset = w.currentValue]
                       ELSE handle(drawer)
    /\ UNCHANGED <<trackerVars, snapVars, scrollLock, focusTrap>>

NextDrawer ==
    \/ TriggerClick
    \/ CloseClick
    \/ OverlayClick
    \/ \E event \in DrawerEvents : PointerDown(event)
    \/ \E event \in DrawerEvents : PointerMove(event)
    \/ \E event \in DrawerEvents : PointerUp(event)
    \/ \E gap \in FrameGaps : Frame(gap)

\* A drawer whose animations nothing interferes with: the user acts only
\* while no animation is running, and releases only on the open drawer.
AtRest == ~spring.isAnimating /\ Pending(spring) = {}

FrameAlone == \E gap \in FrameGaps : Frame(gap)

NextDrawerRun ==
    \/ AtRest /\ TriggerClick
    \/ \E event \in DrawerEvents : AtRest /\ PointerDown(event)
    \/ \E event \in DrawerEvents : AtRest /\ PointerMove(event)
    \/ \E event \in DrawerEvents : AtRest /\ drawer.isOpen /\ PointerUp(event)
    \/ FrameAlone

\* A drawer, controlled or not, whose animations nothing interferes with
NextDrawerState ==
    \/ TriggerClick
    \/ CloseClick
    \/ OverlayClick
    \/ Toggle
    \/ \E controlledOpen \in {"true", "false"} : SetOpenProp(controlledOpen)
    \/ \E event \in DrawerEvents : AtRest /\ PointerDown(event)
    \/ \E event \in DrawerEvents : AtRest /\ PointerMove(event)
    \/ \E event \in DrawerEvents : AtRest /\ drawer.isOpen /\ PointerUp(event)
    \/ FrameAlone

(***************************************************************************)
(* Properties of the drawer                                                *)
(***************************************************************************)

\* C16: a release on the open drawer with neither threshold exceeded snaps
\* back: the drawer is not closed by the animation that release started,
\* whatever happened on the drawer before the release.  (Stated for the
\* releases made while no earlier animation was running.)
C16_SnapBackStaysOpen ==
    (drawer.release = "back" /\ drawer.releasedAtRest) =>
        drawer.closedBy # "complete"

\* C17: on a dismissible open drawer, a release with the velocity or the
\* dragged fraction over its threshold eventually closes the drawer: the
\* animation to the closed offset settles and close() is called, once, for
\* that release.
C17_ClosingReleaseCloses ==
    /\ [](drawer.closes <= 1)
    /\ (drawer.release = "close" /\ drawer.closes = 0) ~>
           (drawer.closes = 1 /\ ~drawer.isOpen)

\* C18: a drawer with dismissible = false is never closed by an overlay
\* click or by a gesture on its content: no pointer-up makes close the
\* spring's onComplete, onComplete never calls close(), and whenever the
\* drawer is closed it is the Close button that closed it (or it has not
\* been opened yet).
C18_NotDismissibleNeverClosed ==
    ~drawer.dismissible =>
        /\ drawer.onComplete = "undefined"
        /\ drawer.closes = 0
        /\ drawer.closedBy \in {"none", "button"}

\* A drawer with dismissible = false that is open after a release on its
\* content has been animated to its end.
C18_Witness ==
    /\ ~drawer.dismissible
    /\ drawer.isOpen
    /\ drawer.release = "back"
    /\ spring.calls > 0
    /\ ~spring.isAnimating

Controlled(d) == d.controlledOpen # "undefined"

\* C22: while the open prop is given the open state equals the prop, and no
\* trigger click, Close click, overlay click, toggle or frame changes the
\* open state or useDrawerState's own state: each only reports the value it
\* asked for through onOpenChange.  Without the prop a trigger click leaves
\* the drawer open and a Close click leaves it closed.
C22_ControlledFollowsProp ==
    /\ [](Controlled(drawer) => drawer.isOpen = (drawer.controlledOpen = "true"))
    /\ [][((Controlled(drawer) /\ drawer'.controlledOpen = drawer.controlledOpen)
              => (/\ drawer'.isOpen = drawer.isOpen
                  /\ drawer'.uncontrolledOpen = drawer.uncontrolledOpen))
          /\ ((Controlled(drawer) /\ TriggerClick) => drawer'.reported = <<TRUE>>)
          /\ ((Controlled(drawer) /\ (CloseClick \/ OverlayClick))
                 => drawer'.reported = <<FALSE>>)
          /\ ((Controlled(drawer) /\ Toggle)
                 => drawer'.reported = <<~drawer.isOpen>>)
          /\ ((~Controlled(drawer) /\ TriggerClick) => drawer'.isOpen)
          /\ ((~Controlled(drawer) /\ CloseClick) => ~drawer'.isOpen)]_vars

\* A controlled open drawer has been asked to close and is still open.
C22_Witness ==
    /\ drawer.controlledOpen = "true"
    /\ drawer.isOpen
    /\ drawer.reported = <<FALSE>>

\* C23: on a drawer that is not controlled, a handler or callback calls
\* onOpenChange exactly when it changes the open state: once, with the new
\* state, when it opens or closes the drawer, and not at all when it leaves
\* the open state as it was.
C23_ReportedWhenChanged ==
    [][~Controlled(drawer)
          => drawer'.reported = IF drawer'.isOpen # drawer.isOpen
                                THEN <<drawer'.isOpen>>
                                ELSE <<>>]_vars

\* C24: every tick of the drawer's SpringAnimation, the settling one
\* included, hands its resulting value to onUpdate, so that after each tick
\* the offset onUpdate has set is the spring's value, and after the
\* settling tick it is the target.
C24_EveryTickUpdates ==
    [][FrameAlone => drawer'.currentOffset = spring'.currentValue]_vars

\* The gesture's delta along the drawer's axis
DeltaAlong(direction, gestureState) ==
    IF IsVertical(direction) THEN gestureState.deltaY ELSE gestureState.deltaX

\* C27: a release that ends a drag on the open drawer, with the pointer away
\* from the closing direction (the side on which moves are dampened), does
\* not start the closing of the drawer.
C27_AwayDragNeverCloses ==
    [][\A event \in DrawerEvents :
           (/\ PointerUp(event)
            /\ state.isDragging
            /\ drawer.isOpen
            /\ shouldDampen(drawer.direction, DeltaAlong(drawer.direction, state')))
               => drawer'.release # "close"]_vars

\* C28: when handlePointerUp ends a drag that has moved the open drawer, the value
\* of the spring it calls setTarget on is the offset the drawer has been
\* dragged to, so that the release animation starts where the drag ended.
C28_SpringStartsAtDragOffset ==
    [][\A event \in DrawerEvents :
           (PointerUp(event) /\ drawer.isOpen /\ state.isDragging /\ Len(history) > 1)
               => /\ spring.currentValue = drawer.currentOffset
                  /\ spring'.currentValue = drawer.currentOffset]_vars

\* C29: while a drag is in progress no tick of the drawer's SpringAnimation
\* is scheduled, and no frame writes the drawer's offset through onUpdate.
C29_NoAnimationWhileDragging ==
    /\ [](state.isDragging => Pending(spring) = {})
    /\ [][(state.isDragging /\ FrameAlone)
             => drawer'.currentOffset = drawer.currentOffset]_vars

\* C30: a pointer-up on the content of the open drawer at rest, while no
\* drag is in progress, does not start the closing of the drawer, whatever
\* delta and velocity earlier gestures have left in the tracker.
C30_StrayPointerUpNeverCloses ==
    [][\A event \in DrawerEvents :
           (PointerUp(event) /\ ~state.isDragging /\ drawer.isOpen /\ AtRest)
               => drawer'.release # "close"]_vars

(***************************************************************************)
(* useScrollLock                                                           *)
(*                                                                         *)
(* Several drawers rendered in one document; each DrawerContent calls      *)
(* useScrollLock(modal && isOpen), whose effect runs when that value       *)
(* becomes true and whose cleanup runs when it stops being true.  The one  *)
(* variable scrollLock holds                                               *)
(*   sheet          what the page's style sheet gives document.body:       *)
(*                  overflow and padding-right                             *)
(*   scrollbar      the width of the viewport's scrollbar when the body    *)
(*                  scrolls, in pixels (0: none)                           *)
(*   style          document.body.style: overflow and paddingRight,        *)
(*                  "" when not set                                        *)
(*   modal, isOpen  of each drawer                                         *)
(*   saved          of each drawer, what its running effect holds:         *)
(*                  originalStyle and originalPaddingRight, or NoEffect    *)
(***************************************************************************)

\* The drawers of the page are 1..MaxDrawers.
MaxDrawers == 3

Drawers == 1..MaxDrawers

\* overflow values a style sheet gives the body
Overflows == {"visible", "scroll"}

\* widths of the scrollbar
ScrollbarWidths == {0, 15}

Px(n) == IF n = 0 THEN "0px" ELSE "15px"

NoEffect == [running |-> FALSE]

\* window.getComputedStyle(document.body)
getComputedStyle(page) ==
    [overflow |-> IF page.style.overflow = "" THEN page.sheet.overflow
                  ELSE page.style.overflow,
     paddingRight |-> IF page.style.paddingRight = "" THEN page.sheet.paddingRight
                      ELSE page.style.paddingRight]

\* window.innerWidth - document.documentElement.clientWidth: the viewport
\* has no scrollbar while the body's overflow is hidden
scrollbarWidth(page) ==
    IF getComputedStyle(page).overflow = "hidden" THEN 0 ELSE page.scrollbar

\* The effect of useScrollLock(true) in drawer d
lock(page, d) ==
    [page EXCEPT
        !.saved[d] = [running |-> TRUE,
                      originalStyle |-> getComputedStyle(page).overflow,
                      originalPaddingRight |-> getComputedStyle(page).paddingRight],
        !.style.overflow = "hidden",
        !.style.paddingRight =
            IF scrollbarWidth(page) > 0 THEN Px(scrollbarWidth(page)) ELSE @]

\* The cleanup of that effect
unlock(page, d) ==
    [page EXCEPT
        !.style.overflow = page.saved[d].originalStyle,
        !.style.paddingRight = page.saved[d].originalPaddingRight,
        !.saved[d] = NoEffect]

\* The page with its drawers rendered closed (defaultOpen = false)
NewPage(overflow, scrollbar, modal) ==
    [sheet |-> [overflow |-> overflow, paddingRight |-> "0px"],
     scrollbar |-> scrollbar,
     style |-> [overflow |-> "", paddingRight |-> ""],
     modal |-> modal,
     isOpen |-> [d \in Drawers |-> FALSE],
     saved |-> [d \in Drawers |-> NoEffect]]

InitScrollLock ==
    \E overflow \in Overflows, scrollbar \in ScrollbarWidths,
       modal \in [Drawers -> BOOLEAN] :
        scrollLock = NewPage(overflow, scrollbar, modal)

\* Drawer d opens (its trigger is clicked): React renders it with isOpen true
\* and runs the effect of useScrollLock(modal && isOpen).
OpenDrawer(d) ==
    /\ ~scrollLock.isOpen[d]
    /\ scrollLock' =
           LET page == [scrollLock EXCEPT !.isOpen[d] = TRUE]
           IN  IF page.modal[d] THEN lock(page, d) ELSE page
    /\ UNCHANGED <<trackerVars, snapVars, springVars, drawer, focusTrap>>

\* Drawer d closes (its Close button or overlay is clicked, or its closing
\* animation completes): React renders it with isOpen false and runs the
\* cleanup of the effect.
CloseDrawer(d) ==
    /\ scrollLock.isOpen[d]
    /\ scrollLock' =
           LET page == [scrollLock EXCEPT !.isOpen[d] = FALSE]
           IN  IF page.modal[d] THEN unlock(page, d) ELSE page
    /\ UNCHANGED <<trackerVars, snapVars, springVars, drawer, focusTrap>>

NextScrollLock ==
    \/ \E d \in Drawers : OpenDrawer(d)
    \/ \E d \in Drawers : CloseDrawer(d)

\* C19: the body's scroll is locked exactly while a modal drawer is open:
\* its overflow is hidden while one is open, and when none is open its
\* overflow is what it was before the first lock, in whatever order the
\* drawers were opened and closed.
C19_LockedWhileModalOpen ==
    IF \E d \in Drawers : scrollLock.modal[d] /\ scrollLock.isOpen[d]
    THEN getComputedStyle(scrollLock).overflow = "hidden"
    ELSE getComputedStyle(scrollLock).overflow = scrollLock.sheet.overflow

(***************************************************************************)
(* useFocusTrap                                                            *)
(*                                                                         *)
(* One modal drawer and the document's focus.  The elements of the drawer  *)
(* content are numbered 1..Len(content) in document order; 0 stands for    *)
(* the elements of the page outside the content (the trigger, the browser's*)
(* own controls), which come before and after it in the tab order.  The    *)
(* one variable focusTrap holds                                            *)
(*   content         the kind of each element of the content               *)
(*   isActive        modal && isOpen, as given to useFocusTrap             *)
(*   firstFocusable, lastFocusable, previouslyFocused                      *)
(*                   what the running effect holds (Undefined: no element) *)
(*   activeElement   document.activeElement                                *)
(*   dismissible     the prop of DrawerRoot                                *)
(* and what an observer has seen:                                          *)
(*   key             the last key pressed since the drawer was opened,     *)
(*                   "none" before one                                     *)
(***************************************************************************)

\* The content has at most MaxContent elements.
MaxContent == 3

\* Kinds of elements: an enabled button (matched by FOCUSABLE_ELEMENTS, takes
\* focus), a disabled button (matched, takes no focus), and an element with
\* contenteditable (not matched, takes focus and is a tab stop)
ElementKinds == {"button", "disabled button", "contenteditable"}

\* element.querySelectorAll(FOCUSABLE_ELEMENTS) matches the element
Matches(kind) == kind \in {"button", "disabled button"}

\* The element takes focus and is a stop of sequential navigation
Focusable(kind) == kind \in {"button", "contenteditable"}

Contents == UNION {[1..n -> ElementKinds] : n \in 0..MaxContent}

Outside == 0

Undefined == -1

\* element.querySelectorAll(FOCUSABLE_ELEMENTS), as the set of the indices
focusableElements(content) == {i \in DOMAIN content : Matches(content[i])}

\* element?.focus()
focus(trap, element) ==
    IF element = Undefined THEN trap
    ELSE IF element = Outside THEN [trap EXCEPT !.activeElement = Outside]
    ELSE IF Focusable(trap.content[element])
         THEN [trap EXCEPT !.activeElement = element]
    ELSE trap

\* The effect of useFocusTrap(ref, true)
trapFocus(trap) ==
    LET matched == focusableElements(trap.content)
        first == IF matched = {} THEN Undefined
                 ELSE CHOOSE i \in matched : \A j \in matched : i <= j
        last == IF matched = {} THEN Undefined
                ELSE CHOOSE i \in matched : \A j \in matched : j <= i
    IN  focus([trap EXCEPT !.isActive = TRUE,
                           !.firstFocusable = first, !.lastFocusable = last,
                           !.previouslyFocused = trap.activeElement,
                           !.key = "none"],
              first)

\* The cleanup of that effect
releaseFocus(trap) ==
    [focus(trap, trap.previouslyFocused) EXCEPT
        !.isActive = FALSE, !.firstFocusable = Undefined,
        !.lastFocusable = Undefined, !.previouslyFocused = Undefined,
        !.key = "none"]

\* The browser's own handling of Tab (shiftKey false) or Shift+Tab: focus
\* moves to the next or previous tab stop of the document, in which the
\* stops of the content are surrounded by the page's other ones.
defaultTab(trap, shiftKey) ==
    LET stops == {i \in DOMAIN trap.content : Focusable(trap.content[i])}
        after == {i \in stops : i > trap.activeElement}
        before == {i \in stops : i < trap.activeElement}
    IN  IF ~shiftKey
        THEN [trap EXCEPT !.activeElement =
                 IF after = {} THEN Outside
                 ELSE CHOOSE i \in after : \A j \in after : i <= j]
        ELSE IF trap.activeElement = Outside
             THEN [trap EXCEPT !.activeElement =
                      IF stops = {} THEN Outside
                      ELSE CHOOSE i \in stops : \A j \in stops : j <= i]
        ELSE [trap EXCEPT !.activeElement =
                 IF before = {} THEN Outside
                 ELSE CHOOSE i \in before : \A j \in before : j <= i]

\* A Tab key pressed while the trap is active: handleKeyDown, which listens
\* on the content element and so runs for keys pressed inside it, and the
\* browser's own handling unless preventDefault() was called
keyDownTab(trap, shiftKey) ==
    IF trap.activeElement = Outside THEN defaultTab(trap, shiftKey)
    ELSE IF shiftKey
         THEN IF trap.activeElement = trap.firstFocusable
              THEN focus(trap, trap.lastFocusable)
              ELSE defaultTab(trap, shiftKey)
    ELSE IF trap.activeElement = trap.lastFocusable
         THEN focus(trap, trap.firstFocusable)
    ELSE defaultTab(trap, shiftKey)

\* A key other than Tab pressed in the open drawer: handleKeyDown returns at
\* its first line, DrawerContent and DrawerOverlay render no key handler,
\* and the browser does nothing of its own for Escape on a div.
keyDownOther(trap) == trap

\* The drawer rendered closed, the focus on the page
NewFocusTrap(content, dismissible) ==
    [content |-> content, isActive |-> FALSE,
     firstFocusable |-> Undefined, lastFocusable |-> Undefined,
     previouslyFocused |-> Undefined, activeElement |-> Outside,
     dismissible |-> dismissible, key |-> "none"]

InitFocusTrap ==
    \E content \in Contents, dismissible \in BOOLEAN :
        focusTrap = NewFocusTrap(content, dismissible)

\* The drawer opens: useFocusTrap(contentRef, modal && isOpen) runs its
\* effect.
OpenModal ==
    /\ ~focusTrap.isActive
    /\ focusTrap' = trapFocus(focusTrap)
    /\ UNCHANGED <<trackerVars, snapVars, springVars, drawer, scrollLock>>

\* The drawer closes: the cleanup runs.
CloseModal ==
    /\ focusTrap.isActive
    /\ focusTrap' = releaseFocus(focusTrap)
    /\ UNCHANGED <<trackerVars, snapVars, springVars, drawer, scrollLock>>

\* The user presses Tab or Shift+Tab while the drawer is open.
KeyDownTab(shiftKey) ==
    /\ focusTrap.isActive
    /\ focusTrap' = [keyDownTab(focusTrap, shiftKey) EXCEPT !.key = "Tab"]
    /\ UNCHANGED <<trackerVars, snapVars, springVars, drawer, scrollLock>>

\* The user presses Escape while the drawer is open.
KeyDownEscape ==
    /\ focusTrap.isActive
    /\ focusTrap' = [keyDownOther(focusTrap) EXCEPT !.key = "Escape"]
    /\ UNCHANGED <<trackerVars, snapVars, springVars, drawer, scrollLock>>

NextFocusTrap ==
    \/ OpenModal
    \/ CloseModal
    \/ \E shiftKey \in BOOLEAN : KeyDownTab(shiftKey)
    \/ KeyDownEscape

\* C20: while the modal drawer is open, no Tab or Shift+Tab pressed with the
\* focus in the drawer content moves the focus out of the content, whatever
\* the content contains.
C20_TabStaysInContent ==
    [][(focusTrap.isActive /\ focusTrap'.isActive
            /\ focusTrap.activeElement # Outside) =>
           focusTrap'.activeElement # Outside]_vars

\* C21: pressing Escape while a dismissible drawer is open closes it: once
\* Escape has been pressed in an open dismissible drawer, the drawer is
\* closed.
C21_EscapeCloses ==
    (focusTrap.dismissible /\ focusTrap.key = "Escape") => ~focusTrap.isActive

(***************************************************************************)
(* Specifications                                                          *)
(***************************************************************************)

\* A SpringAnimation that is never constructed
NoSpring == spring = NewSpring(Fin(0), SPRING_PRESETS.gentle)

\* No drawer, scroll lock or focus trap is rendered
NoDrawer == drawer = NewDrawer(TRUE, "bottom", 0)

NoScrollLock == scrollLock = NewPage("visible", 0, [d \in Drawers |-> TRUE])

NoFocusTrap == focusTrap = NewFocusTrap(<<>>, TRUE)

NoReact == NoDrawer /\ NoScrollLock /\ NoFocusTrap

Init == InitTracker /\ InitSnap /\ InitSpring /\ NoReact

TrackerAlone == InitTracker /\ NoSnap /\ NoSpring /\ NoReact

SnapAlone == InitSnap /\ InitTracker /\ NoSpring /\ NoReact

SpringAlone == InitSpring /\ InitTracker /\ NoSnap /\ NoReact

\* A drawer with the default direction and springConfig
DrawerAlone ==
    /\ InitDrawer(BOOLEAN, {"bottom"}, {"gentle"})
    /\ InitTracker /\ NoSnap /\ NoScrollLock /\ NoFocusTrap

\* One PointerTracker under any sequence of calls.
SpecTracker == TrackerAlone /\ [][NextTracker]_vars

\* One SnapPointCalculator, constructed with any config, under any sequence
\* of calls.
SpecSnap == SnapAlone /\ [][NextSnap]_vars

\* One SpringAnimation under any sequence of calls and frames, with callbacks
\* that call back into it.
SpecSpring == SpringAlone /\ [][NextSpring]_vars

\* One SpringAnimation left to run: the browser calls every callback it was
\* asked to call.
SpecSpringRun ==
    /\ SpringAlone
    /\ [][NextRun]_vars
    /\ WF_vars(TickAlone)

\* One drawer under any sequence of clicks, pointer events and frames.
SpecDrawer == DrawerAlone /\ [][NextDrawer]_vars

\* A drawer with dismissible = false, opening from the bottom or from the
\* top, with any springConfig
DrawerNotDismissibleAlone ==
    /\ InitDrawer({FALSE}, {"bottom", "top"}, SpringConfigs)
    /\ InitTracker /\ NoSnap /\ NoScrollLock /\ NoFocusTrap

\* One drawer with dismissible = false under any sequence of clicks, pointer
\* events and frames.
SpecDrawerNotDismissible == DrawerNotDismissibleAlone /\ [][NextDrawer]_vars

ScrollLockAlone ==
    /\ InitScrollLock
    /\ InitTracker /\ NoSnap /\ NoSpring /\ NoDrawer /\ NoFocusTrap

\* The drawers of one page, opened and closed in any order.
SpecScroll == ScrollLockAlone /\ [][NextScrollLock]_vars

FocusTrapAlone ==
    /\ InitFocusTrap
    /\ InitTracker /\ NoSnap /\ NoSpring /\ NoDrawer /\ NoScrollLock

\* One modal drawer with any content, opened and closed, and the Tab key.
SpecFocus == FocusTrapAlone /\ [][NextFocusTrap]_vars

\* A dismissible drawer with any springConfig
DrawerRunAlone ==
    /\ InitDrawer({TRUE}, {"bottom"}, SpringConfigs)
    /\ InitTracker /\ NoSnap /\ NoScrollLock /\ NoFocusTrap

\* One dismissible drawer whose animations are left to run: the browser
\* calls every callback it was asked to call.
SpecDrawerRun ==
    /\ DrawerRunAlone
    /\ [][NextDrawerRun]_vars
    /\ WF_vars(FrameAlone)

\* A dismissible drawer, controlled or not, with an onOpenChange
DrawerStateAlone ==
    /\ InitDrawerState({TRUE}, {"bottom"}, {"gentle"})
    /\ InitTracker /\ NoSnap /\ NoScrollLock /\ NoFocusTrap

\* One drawer whose parent may control it, under clicks, toggles, renders with
\* another open, gestures made at rest and frames.
SpecDrawerState == DrawerStateAlone /\ [][NextDrawerState]_vars

Next == NextTracker \/ NextSnap \/ NextSpring \/ NextDrawer \/ NextScrollLock
           \/ NextFocusTrap \/ NextDrawerState

Spec == Init /\ [][Next]_vars

====
